---------------------------- MODULE Spec2Model ----------------------------
(***************************************************************************)
(* A model of clippy2-oh.py: the ApplicationManager (conversation history, *)
(* application state, single-flight request guard, overlays), the          *)
(* OpenRouterApiThread worker and the Qt event delivery between them.      *)
(*                                                                         *)
(* Threads.  The control (GUI) thread runs one handler at a time.  A       *)
(* worker is a QThread; its signals result_ready and finished are emitted  *)
(* on the worker thread and reach the manager's slots as queued calls, in  *)
(* emission order (the variable queue).  User and tray events are native   *)
(* events: the control thread may handle one before or after any queued    *)
(* call that is waiting.  A queued call is delivered even when the manager *)
(* has meanwhile replaced its reference to the sending worker: the worker  *)
(* object is disposed of by its own deleteLater, queued with finished.     *)
(*                                                                         *)
(* Texts.  A text is a sequence of fragments; the text it stands for is    *)
(* the concatenation of its fragments.  No fragment used here is a prefix  *)
(* of another, and no searched pattern straddles fragments in any other    *)
(* way than the one written, so str.startswith and the substring test `in` *)
(* on the text are StartsWith and Contains on the fragment sequence.       *)
(***************************************************************************)
EXTENDS Integers, Sequences, FiniteSets, TLC

(* ------------------------------ bounds --------------------------------- *)

\* Non-empty submissions the user makes in one run.
MaxSubmits == 3

\* Length of the conversation already held when SpecLong starts.
PrefixLen == 9

(* ------------------------- program constants --------------------------- *)

MAX_HISTORY_MESSAGES == 10

STATE_IDLE == "idle"

STATE_THINKING == "thinking"

SYSTEM_PROMPT == <<"You are 'Clippy 2.Oh'!">>

\* The three asset files __main__ requires.
IDLE_CHARACTER_PATH == "character_idle.png"

BUSY_CHARACTER_PATH == "character_busy.png"

TRAY_ICON_PATH == "tray_icon.png"

required_files == <<IDLE_CHARACTER_PATH, BUSY_CHARACTER_PATH, TRAY_ICON_PATH>>

\* self.api_thread = None
None == 0

(* ------------------------------- texts --------------------------------- *)

THINKING_NOTICE == <<"Thinking...">>

ALREADY_NOTICE == <<"Already thinking...">>

KEY_NOTICE == <<"API ", "key not set", ". Cannot get response.">>

KEY_WARNING == <<"Warning: OPENROUTER_API_KEY not set. API calls disabled.">>

\* The patterns start_api_request looks for in the bubble text.
THINKING_PATTERN == <<"Thinking...">>

KEY_PATTERN == <<"API ", "key not set">>

\* The tuple handle_api_result passes to str.startswith.
ErrorPrefixes ==
    { <<"Error:">>, <<"API ", "Error:">>, <<"API ", "Response ", "Parse ", "Error:">> }

\* text.startswith(prefix)
StartsWith(text, prefix) ==
    /\ Len(text) >= Len(prefix)
    /\ SubSeq(text, 1, Len(prefix)) = prefix

\* pattern in text
Contains(text, pattern) ==
    \E i \in 1..(Len(text) - Len(pattern) + 1) :
        SubSeq(text, i, i + Len(pattern) - 1) = pattern

\* The fragments Qt's HTML parser knows as tags.
HTML_TAGS == { "<b>", "</b>" }

\* Qt::mightBeRichText(text): a known tag opens on the first line.
mightBeRichText(text) == \E i \in 1..Len(text) : text[i] = "<b>"

NotATag(fragment) == fragment \notin HTML_TAGS

\* QTextBrowser.setText(text), read back with toPlainText(): the widget
\* guesses the format, and text that might be rich text is set as HTML.
setText(text) ==
    IF mightBeRichText(text) THEN SelectSeq(text, NotATag) ELSE text

\* str.strip(): leading and trailing whitespace fragments removed.
RECURSIVE LStrip(_)
LStrip(raw) ==
    IF raw # <<>> /\ Head(raw) = " " THEN LStrip(Tail(raw)) ELSE raw

RECURSIVE RStrip(_)
RStrip(raw) ==
    IF raw # <<>> /\ raw[Len(raw)] = " "
    THEN RStrip(SubSeq(raw, 1, Len(raw) - 1))
    ELSE raw

\* _send_message without its strip(): the text of the field as it is.
NoStrip(raw) == raw

Strip(raw) == RStrip(LStrip(raw))

\* The user's messages: the k-th non-empty submission carries UserTexts[k].
UserTexts == << "m1", "m2", "m3", "m4", "m5", "m6" >>

\* What the input field may hold when Send fires, k-1 messages having been
\* sent: nothing, or the next message with blanks around it.
RawInputs(k) ==
    { <<>>, <<" ", UserTexts[k], " ">> }

\* Blanks only, left in the field.
BlankInputs == { <<" ">> }

\* The value of OPENROUTER_API_KEY: unset (None), empty, or a key.
ApiKeys == { "None", "", "sk-key" }

\* The value of OPENROUTER_MODEL: unset (None) or a model name.
Models == { "None", "some/model" }

\* Python truthiness of a configuration string.
Falsy(s) == s \in { "None", "" }

(* --------------------------- worker outcomes --------------------------- *)

\* The signal text of each path through OpenRouterApiThread.run.
NO_KEY_ERROR == <<"Error:", " ", "OpenRouter ", "API ", "key not set", ".">>

\* choices[0].message.content of a successful response: plain text, or text
\* with markup in it.
Replies == { <<"Hi there!">>, <<"<b>", "Hi", "</b>">> }

\* The reply the endpoint gives to a request: the user's first message asks
\* for text in bold, every other one gets a plain greeting.
Answer(messages) ==
    IF messages[Len(messages)].content = <<UserTexts[1]>>
    THEN <<"<b>", "Hi", "</b>">>
    ELSE <<"Hi there!">>

\* f"API Error: {e}"; the details run() may add come after this text and are
\* never examined, so they are left out.
RequestErrors == { <<"API ", "Error:", " ", "e">> }

PARSE_ERROR == <<"API ", "Response ", "Parse ", "Error:", " ", "Missing key ", "'choices'">>

UNEXPECTED_ERROR == <<"An unexpected error occurred: ", "e">>

\* The (path, text) pairs run() can emit for a worker built with api_key.
RunOutcomes(api_key) ==
    IF Falsy(api_key)
    THEN { <<"no_key", NO_KEY_ERROR>> }
    ELSE    { <<"success", r>> : r \in Replies }
       \cup { <<"request_error", e>> : e \in RequestErrors }
       \cup { <<"parse_error", PARSE_ERROR>>, <<"unexpected", UNEXPECTED_ERROR>> }

\* The paths of run() that report a failure.
ErrorPaths == { "no_key", "request_error", "parse_error", "unexpected" }

(* ------------------------------ messages ------------------------------- *)

Message(role, content) == [role |-> role, content |-> content]

system_message == Message("system", SYSTEM_PROMPT)


UserMessage(text) == Message("user", text)

AssistantMessage(text) == Message("assistant", text)

\* Trim with the loop test off by one: it stops one message too early.
RECURSIVE TrimLate(_)
TrimLate(history) ==
    IF Len(history) > MAX_HISTORY_MESSAGES + 1
    THEN TrimLate(Tail(history))
    ELSE history

\* Trim with pop() in place of pop(0): it drops the newest message.
RECURSIVE TrimNewest(_)
TrimNewest(history) ==
    IF Len(history) > MAX_HISTORY_MESSAGES
    THEN TrimNewest(SubSeq(history, 1, Len(history) - 1))
    ELSE history

\* while len(history) > MAX_HISTORY_MESSAGES: history.pop(0)
RECURSIVE Trim(_)
Trim(history) ==
    IF Len(history) > MAX_HISTORY_MESSAGES THEN Trim(Tail(history)) ELSE history

\* is_error = result_text.startswith(("Error:", "API Error:", ...))
IsError(result_text) ==
    \E prefix \in ErrorPrefixes : StartsWith(result_text, prefix)

\* handle_api_result without its is_error test: every text is stored.
HistoryAfterResultAlways(history, result_text) ==
    IF Len(history) >= MAX_HISTORY_MESSAGES
    THEN Append(Tail(history), [role |-> "assistant", content |-> result_text])
    ELSE Append(history, [role |-> "assistant", content |-> result_text])

\* conversation_history after handle_api_result(result_text).
HistoryAfterResult(history, result_text) ==
    IF IsError(result_text)
    THEN history
    ELSE Trim(Append(history, AssistantMessage(result_text)))

\* handle_input_entered storing the "Thinking..." notice after the message.
HistoryAfterInputWithNotice(history, text) ==
    Trim(Append(Trim(Append(history, UserMessage(text))),
                AssistantMessage(THINKING_NOTICE)))

\* handle_input_entered trimming before the append instead of after it.
HistoryAfterInputTrimFirst(history, text) ==
    Append(Trim(history), UserMessage(text))

\* conversation_history after the append and trim of handle_input_entered.
HistoryAfterInput(history, text) ==
    Trim(Append(history, UserMessage(text)))

(* ------------------------------- state --------------------------------- *)

VARIABLES
    phase,                \* "boot", "running", "aborted" (asset missing), "quit"
    assets,               \* the files that exist on disk
    openrouter_api_key,   \* self.openrouter_api_key
    openrouter_model,     \* self.openrouter_model
    app_state,            \* self._app_state
    character_content,    \* the image the character window displays
    conversation_history, \* self.conversation_history
    api_thread,           \* self.api_thread: None or a worker
    workers,              \* every OpenRouterApiThread: position in run(), fields
    queue,                \* queued slot calls waiting on the control thread
    character_visible,    \* character_window.isVisible()
    input_visible,        \* input_box_window.isVisible()
    bubble_visible,       \* speech_bubble_window.isVisible()
    bubble_text,          \* speech_bubble_window.text_browser text
    input_field,          \* input_box_window.input_field text
    warning_timer,        \* the QTimer.singleShot of __init__ is armed
    log,                  \* history variable: every message ever appended
    submits               \* history variable: non-empty submissions so far

vars ==
    << phase, assets, openrouter_api_key, openrouter_model, app_state,
       character_content, conversation_history, api_thread, workers, queue,
       character_visible, input_visible, bubble_visible, bubble_text,
       input_field, warning_timer, log, submits >>

config == << assets, openrouter_api_key, openrouter_model >>

overlays == << character_visible, input_visible, bubble_visible, bubble_text >>

WorkerIds == 1..MaxSubmits

\* A worker not constructed yet.
NoWorker ==
    [pc |-> "none", messages |-> <<>>, api_key |-> "None", model |-> "None"]

\* A worker whose finished signal was handled: deleteLater has run for it.
Deleted ==
    [pc |-> "done", messages |-> <<>>, api_key |-> "None", model |-> "None"]

\* Workers constructed so far, and the next one.
Started == { w \in WorkerIds : workers[w].pc # "none" }

NextId == Cardinality(Started) + 1

\* QThread.isRunning(): start() was called and run() has not returned.
isRunning(w) == workers[w].pc \in { "started", "emitted" }

\* A worker whose request reads the manager's list instead of its own.
PayloadLive(w) == <<system_message>> \o conversation_history

\* The "messages" of the payload run() posts: the worker's own self.messages.
Payload(w) == workers[w].messages

(* ------------------------------ start-up ------------------------------- *)

\* The fields ApplicationManager.__init__ sets, given the configuration, up
\* to its character_window.show().
Constructed(key, model) ==
    /\ openrouter_api_key = key
    /\ openrouter_model = model
    /\ app_state = STATE_IDLE
    /\ character_content = IDLE_CHARACTER_PATH
    /\ api_thread = None
    /\ workers = [w \in WorkerIds |-> NoWorker]
    /\ queue = <<>>
    /\ character_visible = FALSE
    /\ input_visible = FALSE
    /\ bubble_visible = FALSE
    /\ bubble_text = <<>>
    /\ input_field = <<>>
    /\ warning_timer = FALSE
    /\ submits = 0

Init ==
    /\ phase = "boot"
    /\ assets \in SUBSET { required_files[i] : i \in 1..Len(required_files) }
    /\ \E key \in ApiKeys, model \in Models : Constructed(key, model)
    /\ conversation_history = <<>>
    /\ log = <<>>

\* __main__ without its asset check.
MainUnchecked ==
    /\ UNCHANGED input_field
    /\ phase = "boot"
    /\ phase' = "running"
    /\ character_visible' = TRUE
    /\ warning_timer' = Falsy(openrouter_api_key)
    /\ UNCHANGED << config, app_state, character_content, conversation_history,
                    api_thread, workers, queue, input_visible, bubble_visible,
                    bubble_text, log, submits >>

\* __main__: the asset check, then QApplication and ApplicationManager(),
\* whose __init__ ends by showing the character window.
Main ==
    /\ UNCHANGED input_field
    /\ phase = "boot"
    /\ IF \A i \in 1..Len(required_files) : required_files[i] \in assets
       THEN /\ phase' = "running"
            /\ character_visible' = TRUE
            /\ warning_timer' = Falsy(openrouter_api_key)
       ELSE /\ phase' = "aborted"
            /\ UNCHANGED << character_visible, warning_timer >>
    /\ UNCHANGED << config, app_state, character_content, conversation_history,
                    api_thread, workers, queue, input_visible, bubble_visible,
                    bubble_text, log, submits >>

(* --------------------------- manager methods --------------------------- *)

\* SpeechBubbleWindow.show_bubble(text, ...): set_text, then show().
show_bubble(text) ==
    /\ bubble_text' = setText(text)
    /\ bubble_visible' = TRUE

\* ApplicationManager._set_app_state(state)
set_app_state(state) ==
    /\ app_state' = state
    /\ character_content' =
         IF app_state = state THEN character_content
         ELSE IF state = STATE_THINKING THEN BUSY_CHARACTER_PATH
         ELSE IDLE_CHARACTER_PATH

\* The first guard of start_api_request: a request is already running.
AlreadyRunning == api_thread # None /\ isRunning(api_thread)

\* start_api_request without its API-key test.
KeyNeverMissing == FALSE

\* The second guard of start_api_request: no API key.
KeyMissing == Falsy(openrouter_api_key)

\* A worker given the system prompt after the history instead of before it.
NewWorkerSystemLast(messages) ==
    [pc |-> "started", messages |-> Append(Tail(messages), Head(messages)),
     api_key |-> openrouter_api_key, model |-> openrouter_model]

\* OpenRouterApiThread(messages, api_key, model), then start().
NewWorker(messages) ==
    [pc |-> "started", messages |-> messages, api_key |-> openrouter_api_key,
     model |-> openrouter_model]

\* ApplicationManager.start_api_request(), called with the history it reads.
start_api_request(history) ==
    IF AlreadyRunning
    THEN /\ IF ~bubble_visible \/ ~Contains(bubble_text, THINKING_PATTERN)
            THEN show_bubble(ALREADY_NOTICE)
            ELSE UNCHANGED << bubble_visible, bubble_text >>
         /\ set_app_state(STATE_THINKING)
         /\ UNCHANGED << api_thread, workers >>
    ELSE IF KeyMissing
    THEN /\ IF ~bubble_visible \/ ~Contains(bubble_text, KEY_PATTERN)
            THEN show_bubble(KEY_NOTICE)
            ELSE UNCHANGED << bubble_visible, bubble_text >>
         /\ set_app_state(STATE_IDLE)
         /\ UNCHANGED << api_thread, workers >>
    ELSE /\ set_app_state(STATE_THINKING)
         /\ show_bubble(THINKING_NOTICE)
         /\ api_thread' = NextId
         /\ workers' = [workers EXCEPT
                ![NextId] = NewWorker(<<system_message>> \o history)]

\* handle_input_entered keeping the message only if its request is sent.
handle_input_entered_unless_rejected(text) ==
    /\ conversation_history' =
         IF AlreadyRunning \/ KeyMissing
         THEN conversation_history
         ELSE HistoryAfterInput(conversation_history, text)
    /\ log' = IF AlreadyRunning \/ KeyMissing
              THEN log
              ELSE Append(log, UserMessage(text))
    /\ start_api_request(conversation_history')

\* ApplicationManager.handle_input_entered(text)
handle_input_entered(text) ==
    /\ conversation_history' = HistoryAfterInput(conversation_history, text)
    /\ log' = Append(log, UserMessage(text))
    /\ start_api_request(conversation_history')

\* ApplicationManager.handle_api_result(result_text)
handle_api_result(result_text) ==
    /\ conversation_history' = HistoryAfterResult(conversation_history, result_text)
    /\ log' = IF IsError(result_text)
              THEN log
              ELSE Append(log, AssistantMessage(result_text))
    /\ show_bubble(result_text)

\* ApplicationManager._hide_windows()
hide_windows ==
    /\ character_visible' = FALSE
    /\ input_visible' = FALSE
    /\ bubble_visible' = FALSE
    /\ UNCHANGED bubble_text

\* ApplicationManager._show_windows()
show_windows ==
    /\ character_visible' = TRUE
    /\ input_visible' = FALSE
    /\ bubble_visible' = FALSE
    /\ UNCHANGED bubble_text
    /\ set_app_state(STATE_IDLE)

(* ---------------------- control thread: user events -------------------- *)

\* InputBoxWindow._send_message: the user has left raw in the input field and
\* presses Enter or Send.
SendMessage(raw) ==
    /\ phase = "running"
    /\ input_visible
    /\ IF Strip(raw) = <<>>
       THEN /\ input_field' = raw
            /\ UNCHANGED << phase, config, app_state, character_content,
                            conversation_history, api_thread, workers, queue,
                            overlays, warning_timer, log, submits >>
       ELSE /\ submits < MaxSubmits
            /\ handle_input_entered(Strip(raw))
            /\ input_field' = <<>>
            /\ input_visible' = FALSE
            /\ submits' = submits + 1
            /\ UNCHANGED << phase, config, queue, character_visible, warning_timer >>

\* ApplicationManager.handle_character_clicked
CharacterClicked ==
    /\ UNCHANGED input_field
    /\ phase = "running"
    /\ character_visible
    /\ bubble_visible' = FALSE
    /\ input_visible' = ~input_visible
    /\ UNCHANGED << phase, config, app_state, character_content,
                    conversation_history, api_thread, workers, queue,
                    character_visible, bubble_text, warning_timer, log, submits >>

\* The X button of the character window: clicked -> _hide_windows.
CloseButton ==
    /\ UNCHANGED input_field
    /\ phase = "running"
    /\ character_visible
    /\ hide_windows
    /\ UNCHANGED << phase, config, app_state, character_content,
                    conversation_history, api_thread, workers, queue,
                    warning_timer, log, submits >>

\* A closeEvent that accepts the event and lets the process end with the
\* window.
closeEventQuits ==
    /\ UNCHANGED input_field
    /\ phase = "running"
    /\ character_visible
    /\ phase' = "quit"
    /\ app_state' = STATE_IDLE
    /\ character_content' = IDLE_CHARACTER_PATH
    /\ conversation_history' = <<>>
    /\ api_thread' = None
    /\ workers' = [w \in WorkerIds |-> NoWorker]
    /\ queue' = <<>>
    /\ character_visible' = FALSE
    /\ input_visible' = FALSE
    /\ bubble_visible' = FALSE
    /\ bubble_text' = <<>>
    /\ warning_timer' = FALSE
    /\ log' = <<>>
    /\ submits' = 0
    /\ UNCHANGED config

\* CharacterWindow.closeEvent: _hide_windows, and the event is ignored.
closeEvent ==
    /\ UNCHANGED input_field
    /\ phase = "running"
    /\ character_visible
    /\ hide_windows
    /\ UNCHANGED << phase, config, app_state, character_content,
                    conversation_history, api_thread, workers, queue,
                    warning_timer, log, submits >>

\* Tray menu "Show".
TrayShow ==
    /\ UNCHANGED input_field
    /\ phase = "running"
    /\ show_windows
    /\ UNCHANGED << phase, config, conversation_history, api_thread, workers,
                    queue, warning_timer, log, submits >>

\* Tray menu "Hide".
TrayHide ==
    /\ UNCHANGED input_field
    /\ phase = "running"
    /\ hide_windows
    /\ UNCHANGED << phase, config, app_state, character_content,
                    conversation_history, api_thread, workers, queue,
                    warning_timer, log, submits >>

\* ApplicationManager._tray_icon_activated(reason)
TrayActivated(reason) ==
    /\ UNCHANGED input_field
    /\ phase = "running"
    /\ IF reason = "Trigger"
       THEN IF character_visible
            THEN hide_windows /\ UNCHANGED << app_state, character_content >>
            ELSE show_windows
       ELSE UNCHANGED << overlays, app_state, character_content >>
    /\ UNCHANGED << phase, config, conversation_history, api_thread, workers,
                    queue, warning_timer, log, submits >>

\* Tray menu "Quit": QApplication.quit ends the process, and with it every
\* object of the process (nothing is persisted).
TrayQuit ==
    /\ phase = "running"
    /\ phase' = "quit"
    /\ app_state' = STATE_IDLE
    /\ character_content' = IDLE_CHARACTER_PATH
    /\ conversation_history' = <<>>
    /\ api_thread' = None
    /\ workers' = [w \in WorkerIds |-> NoWorker]
    /\ queue' = <<>>
    /\ character_visible' = FALSE
    /\ input_visible' = FALSE
    /\ bubble_visible' = FALSE
    /\ bubble_text' = <<>>
    /\ input_field' = <<>>
    /\ warning_timer' = FALSE
    /\ log' = <<>>
    /\ submits' = 0
    /\ UNCHANGED config

\* The QTimer.singleShot(100, ...) of __init__ fires.
StartupWarning ==
    /\ UNCHANGED input_field
    /\ phase = "running"
    /\ warning_timer
    /\ warning_timer' = FALSE
    /\ show_bubble(KEY_WARNING)
    /\ UNCHANGED << phase, config, app_state, character_content,
                    conversation_history, api_thread, workers, queue,
                    character_visible, input_visible, log, submits >>

(* --------------------- control thread: queued calls -------------------- *)

\* A queued call: the signal, its sender, its argument, and (for the record)
\* the path of run() that emitted it.
ResultReady(w, outcome) ==
    [sig |-> "result_ready", w |-> w, text |-> outcome[2], path |-> outcome[1]]

Finished(w) ==
    [sig |-> "finished", w |-> w, text |-> <<>>, path |-> "none"]

\* A result handler that sends the request again when the text is an error.
DeliverResultRetry ==
    /\ UNCHANGED input_field
    /\ phase = "running"
    /\ queue # <<>>
    /\ Head(queue).sig = "result_ready"
    /\ queue' = Tail(queue)
    /\ handle_api_result(Head(queue).text)
    /\ IF IsError(Head(queue).text) /\ NextId \in WorkerIds
       THEN /\ api_thread' = NextId
            /\ workers' = [workers EXCEPT ![NextId] =
                   NewWorker(<<system_message>> \o conversation_history)]
       ELSE UNCHANGED << api_thread, workers >>
    /\ UNCHANGED << phase, config, app_state, character_content,
                    character_visible, input_visible, warning_timer, submits >>

\* The queued result_ready of a worker reaches handle_api_result.
DeliverResult ==
    /\ UNCHANGED input_field
    /\ phase = "running"
    /\ queue # <<>>
    /\ Head(queue).sig = "result_ready"
    /\ queue' = Tail(queue)
    /\ handle_api_result(Head(queue).text)
    /\ UNCHANGED << phase, config, app_state, character_content, api_thread,
                    workers, character_visible, input_visible, warning_timer,
                    submits >>

\* A finished handler that leaves the marker and the state as they are.
FinishedKeepsMarker ==
    /\ UNCHANGED input_field
    /\ phase = "running"
    /\ queue # <<>>
    /\ Head(queue).sig = "finished"
    /\ queue' = Tail(queue)
    /\ workers' = [workers EXCEPT ![Head(queue).w] = Deleted]
    /\ UNCHANGED << phase, config, app_state, character_content, api_thread,
                    conversation_history, overlays, warning_timer, log, submits >>

\* The queued finished of a worker reaches _api_thread_finished
\* (its deleteLater, connected first, changes nothing modelled here).
DeliverFinished ==
    /\ UNCHANGED input_field
    /\ phase = "running"
    /\ queue # <<>>
    /\ Head(queue).sig = "finished"
    /\ queue' = Tail(queue)
    /\ api_thread' = None
    /\ set_app_state(STATE_IDLE)
    /\ workers' = [workers EXCEPT ![Head(queue).w] = Deleted]
    /\ UNCHANGED << phase, config, conversation_history, overlays,
                    warning_timer, log, submits >>

(* ---------------------------- worker thread ---------------------------- *)

\* run() without its last except clause: the exception ends run() unreported.
EmitsNothingOnUnexpected(w, outcome) ==
    IF outcome[1] = "unexpected" THEN <<>> ELSE << ResultReady(w, outcome) >>

\* The result_ready.emit calls of the path of run() taken, in order.
Emits(w, outcome) == << ResultReady(w, outcome) >>

\* The outcomes of run() for worker w: any failure, or the endpoint's answer
\* to the messages it posts.
Outcomes(w) ==
    { o \in RunOutcomes(workers[w].api_key) :
        o[1] = "success" => o[2] = Answer(Payload(w)) }

\* run() writing its reply to the manager's history itself, off the control
\* thread, before it emits.
WorkerRunStoresReply(w) ==
    /\ UNCHANGED input_field
    /\ phase = "running"
    /\ workers[w].pc = "started"
    /\ \E outcome \in Outcomes(w) :
         /\ workers' = [workers EXCEPT ![w].pc = "emitted"]
         /\ queue' = queue \o Emits(w, outcome)
         /\ conversation_history' =
              HistoryAfterResult(conversation_history, outcome[2])
    /\ UNCHANGED << phase, config, app_state, character_content, api_thread,
                    overlays, warning_timer, log, submits >>

\* OpenRouterApiThread.run up to its single result_ready.emit.
WorkerRun(w) ==
    /\ UNCHANGED input_field
    /\ phase = "running"
    /\ workers[w].pc = "started"
    /\ \E outcome \in Outcomes(w) :
         /\ workers' = [workers EXCEPT ![w].pc = "emitted"]
         /\ queue' = queue \o Emits(w, outcome)
    /\ UNCHANGED << phase, config, app_state, character_content,
                    conversation_history, api_thread, overlays, warning_timer,
                    log, submits >>

\* run() returns: the thread stops running and emits finished.
WorkerReturn(w) ==
    /\ UNCHANGED input_field
    /\ phase = "running"
    /\ workers[w].pc = "emitted"
    /\ workers' = [workers EXCEPT ![w].pc = "returned"]
    /\ queue' = Append(queue, Finished(w))
    /\ UNCHANGED << phase, config, app_state, character_content,
                    conversation_history, api_thread, overlays, warning_timer,
                    log, submits >>

(* ---------------------------- specification ---------------------------- *)

TrayReasons == { "Trigger", "Context" }

Next ==
    \/ Main
    \/ StartupWarning
    \/ \E raw \in RawInputs(submits + 1) : SendMessage(raw)
    \/ CharacterClicked
    \/ CloseButton
    \/ closeEvent
    \/ TrayShow
    \/ TrayHide
    \/ \E reason \in TrayReasons : TrayActivated(reason)
    \/ TrayQuit
    \/ DeliverResult
    \/ DeliverFinished
    \/ \E w \in WorkerIds : WorkerRun(w)
    \/ \E w \in WorkerIds : WorkerReturn(w)

Spec == Init /\ [][Next]_vars

\* The scheduling the program relies on: the network call of run() returns or
\* raises, run() returns after its emit, and the event loop of the control
\* thread delivers every queued signal.
Fairness ==
    /\ WF_vars(DeliverResult)
    /\ WF_vars(DeliverFinished)
    /\ \A w \in WorkerIds : WF_vars(WorkerRun(w)) /\ WF_vars(WorkerReturn(w))

SpecFair == Init /\ [][Next]_vars /\ Fairness

(* ------------------- a run that starts mid-conversation ---------------- *)

\* The texts of an earlier conversation, oldest first.
OldTexts == << "h1", "h2", "h3", "h4", "h5", "h6", "h7", "h8", "h9", "h10", "h11" >>

\* The history after n earlier appends: with a key, user and assistant
\* taking turns; without one, user messages only (no request was ever made).
OldHistory(key, n) ==
    [i \in 1..n |->
        Message(IF Falsy(key) \/ i % 2 = 1 THEN "user" ELSE "assistant",
                <<OldTexts[i]>>)]

\* The text the bubble was last shown with in that conversation: the key
\* notice, the last reply, or the error of the last request.
OldBubbleText(key, n) ==
    IF Falsy(key) THEN KEY_NOTICE
    ELSE IF n % 2 = 1 THEN PARSE_ERROR
    ELSE <<OldTexts[n]>>

\* The manager PrefixLen messages into a conversation: idle, no request
\* pending, the overlays closed again by two clicks on the character.
InitLong ==
    /\ phase = "running"
    /\ assets = { required_files[i] : i \in 1..Len(required_files) }
    /\ \E key \in { "None", "sk-key" } :
         /\ openrouter_api_key = key
         /\ conversation_history = Trim(OldHistory(key, PrefixLen))
         /\ log = OldHistory(key, PrefixLen)
         /\ bubble_text = OldBubbleText(key, PrefixLen)
    /\ openrouter_model = "some/model"
    /\ app_state = STATE_IDLE
    /\ character_content = IDLE_CHARACTER_PATH
    /\ api_thread = None
    /\ workers = [w \in WorkerIds |-> NoWorker]
    /\ queue = <<>>
    /\ character_visible = TRUE
    /\ input_visible = FALSE
    /\ bubble_visible = FALSE
    /\ input_field = <<>>
    /\ warning_timer = FALSE
    /\ submits = 0

NextLong ==
    \/ \E raw \in RawInputs(submits + 1) : SendMessage(raw)
    \/ CharacterClicked
    \/ CloseButton
    \/ closeEvent
    \/ TrayShow
    \/ TrayHide
    \/ \E reason \in TrayReasons : TrayActivated(reason)
    \/ TrayQuit
    \/ DeliverResult
    \/ DeliverFinished
    \/ \E w \in WorkerIds : WorkerRun(w)
    \/ \E w \in WorkerIds : WorkerReturn(w)

SpecLong == InitLong /\ [][NextLong]_vars

\* The same run with a user who also presses Send on a field of blanks, and
\* who opens and closes the overlays with the character, its X button and
\* the tray's Show.
NextInput ==
    \/ \E raw \in RawInputs(submits + 1) \cup BlankInputs : SendMessage(raw)
    \/ CharacterClicked
    \/ CloseButton
    \/ TrayShow
    \/ DeliverResult
    \/ DeliverFinished
    \/ \E w \in WorkerIds : WorkerRun(w)
    \/ \E w \in WorkerIds : WorkerReturn(w)

SpecInput == InitLong /\ [][NextInput]_vars


(* ------------------------------ properties ----------------------------- *)

\* The step is a non-empty submission (handle_input_entered has run).
Submitted == phase' = "running" /\ submits' = submits + 1

\* The step is the delivery of a queued result_ready to handle_api_result.
ResultHandled ==
    /\ phase' = "running"
    /\ queue # <<>>
    /\ Head(queue).sig = "result_ready"
    /\ queue' = Tail(queue)

\* Workers that were started and whose finished signal is not handled yet.
Pending == { w \in WorkerIds : workers[w].pc \in { "started", "emitted", "returned" } }

\* C1: in every reachable state at most one worker has been started and has
\* not yet returned from run().
C1_AtMostOneWorkerRunning ==
    Cardinality({ w \in WorkerIds : isRunning(w) }) <= 1

\* C2: a submission made while self.api_thread is not None creates and starts
\* no worker; it shows at most the "already in progress" notice and leaves the
\* state Thinking.
C2_NoSecondWorkerWhilePending ==
    [][ (Submitted /\ api_thread # None) =>
          /\ workers' = workers
          /\ api_thread' = api_thread
          /\ app_state' = STATE_THINKING
          /\ bubble_visible'
          /\ bubble_text' \in { ALREADY_NOTICE, bubble_text } ]_vars

\* C3: in every reachable state the application state is Thinking if and only
\* if a worker is pending (dispatched, completion not yet processed).
C3_ThinkingIffPending ==
    (app_state = STATE_THINKING) <=> (Pending # {})

\* C4: in every reachable state conversation_history holds at most
\* MAX_HISTORY_MESSAGES = 10 entries.
C4_HistoryBounded ==
    Len(conversation_history) <= MAX_HISTORY_MESSAGES

\* C4 witness: more than 10 messages were appended and the history holds 10.
C4_Witness ==
    /\ Len(log) > MAX_HISTORY_MESSAGES
    /\ Len(conversation_history) = MAX_HISTORY_MESSAGES

\* C5: after N appends (user and assistant alike) the history has min(N, 10)
\* entries and they are the last min(N, 10) appended messages, in append order.
C5_HistoryIsTailOfAppends ==
    LET n == Len(log)
        k == IF n < MAX_HISTORY_MESSAGES THEN n ELSE MAX_HISTORY_MESSAGES
    IN  /\ Len(conversation_history) = k
        /\ conversation_history = SubSeq(log, n - k + 1, n)

\* C5 witness: twelve or more appends of both roles, so two or more evictions.
C5_Witness ==
    /\ Len(log) >= MAX_HISTORY_MESSAGES + 2
    /\ log[Len(log)].role = "assistant"
    /\ log[Len(log) - 1].role = "user"

\* C6: handle_api_result leaves the history as it was for a text classified
\* as an error, and otherwise appends exactly one assistant record with that
\* text (then evicts).
C6_ErrorNotStoredReplyStored ==
    [][ ResultHandled =>
          LET text == Head(queue).text
              stored == Append(conversation_history,
                               [role |-> "assistant", content |-> text])
          IN  IF IsError(text)
              THEN conversation_history' = conversation_history
              ELSE conversation_history' =
                     SubSeq(stored,
                            IF Len(stored) > MAX_HISTORY_MESSAGES
                            THEN Len(stored) - MAX_HISTORY_MESSAGES + 1 ELSE 1,
                            Len(stored)) ]_vars

\* C6 witness: a reply was stored with an eviction, and later an error text
\* was handled and shown while the history still ends with the user message it
\* answered.
C6_Witness ==
    /\ bubble_text = PARSE_ERROR
    /\ bubble_visible
    /\ Len(log) > MAX_HISTORY_MESSAGES
    /\ conversation_history[Len(conversation_history)].role = "user"
    /\ \E i \in 1..Len(conversation_history) :
         conversation_history[i] = AssistantMessage(<<"Hi there!">>)

\* C7: the result of every failing path of run() leaves the history as it was
\* when handle_api_result handles it.
C7_FailureNeverStored ==
    [][ (ResultHandled /\ Head(queue).path \in ErrorPaths) =>
          conversation_history' = conversation_history ]_vars

\* C8: a submission made with no request pending and one of API key and model
\* missing shows a notice, ends Idle and starts no worker; and every worker
\* that is started has both.
C8_IncompleteConfigBlocksRequest ==
    [][ /\ (Submitted /\ api_thread = None
              /\ (Falsy(openrouter_api_key) \/ Falsy(openrouter_model))) =>
            /\ workers' = workers
            /\ api_thread' = None
            /\ app_state' = STATE_IDLE
            /\ bubble_visible'
        /\ \A w \in WorkerIds :
             workers'[w].pc = "started" =>
               ~Falsy(workers'[w].api_key) /\ ~Falsy(workers'[w].model) ]_vars

\* C9: with the API key missing, every non-empty submission appends the user
\* message (with eviction), leaves the key notice showing, ends Idle with
\* api_thread None, and no worker is ever started.
C9_MissingKeySubmission ==
    [][ Falsy(openrouter_api_key) =>
          /\ workers' = [w \in WorkerIds |-> NoWorker]
          /\ Submitted =>
               /\ log' = Append(log, UserMessage(<<UserTexts[submits']>>))
               /\ Len(conversation_history') <= MAX_HISTORY_MESSAGES
               /\ conversation_history' =
                    SubSeq(log', Len(log') - Len(conversation_history') + 1, Len(log'))
               /\ Len(log') <= MAX_HISTORY_MESSAGES =>
                    conversation_history' = log'
               /\ bubble_visible'
               /\ bubble_text' = KEY_NOTICE
               /\ app_state' = STATE_IDLE
               /\ api_thread' = None ]_vars

\* C9 witness: no key, three submissions in a row, the oldest messages
\* evicted, the key notice showing.
C9_Witness ==
    /\ Falsy(openrouter_api_key)
    /\ submits = 3
    /\ Len(log) > MAX_HISTORY_MESSAGES
    /\ conversation_history[MAX_HISTORY_MESSAGES] = UserMessage(<<UserTexts[3]>>)
    /\ bubble_visible
    /\ bubble_text = KEY_NOTICE
    /\ app_state = STATE_IDLE

\* C10: a submission with no request pending and a valid configuration starts
\* exactly one worker; the message list of a worker a submission starts is the
\* system record followed by the history as it then is: one system record, at
\* index 1, the submitted text last, at most 11 records.
C10_RequestIsSystemPlusHistory ==
    [][ Submitted =>
          LET w == NextId
              started == { v \in WorkerIds : workers'[v] # workers[v] }
              messages == workers'[w].messages
          IN  /\ (api_thread = None /\ ~Falsy(openrouter_api_key)
                    /\ ~Falsy(openrouter_model)) => started = { w }
              /\ started # {} =>
                   /\ started = { w }
                   /\ workers[w].pc = "none"
                   /\ workers'[w].pc = "started"
                   /\ api_thread' = w
                   /\ messages = <<system_message>> \o conversation_history'
                   /\ { i \in 1..Len(messages) : messages[i].role = "system" } = { 1 }
                   /\ messages[Len(messages)] = UserMessage(<<UserTexts[submits']>>)
                   /\ Len(messages) <= MAX_HISTORY_MESSAGES + 1 ]_vars

\* C10 witness: a worker is in flight with a list of 11 records.
C10_Witness ==
    \E w \in WorkerIds :
        /\ workers[w].pc = "started"
        /\ Len(workers[w].messages) = MAX_HISTORY_MESSAGES + 1
        /\ workers[w].messages[1] = system_message

\* The worker is in flight before and after the step: started, result not
\* emitted yet.
InFlight(w) ==
    /\ phase' = "running"
    /\ workers[w].pc = "started"
    /\ workers'[w].pc = "started"

\* C11: no step changes the message list an in-flight worker posts, whatever
\* it appends to or evicts from conversation_history.
C11_InFlightMessagesUnchanged ==
    [][ \A w \in WorkerIds : InFlight(w) => Payload(w)' = Payload(w) ]_vars

\* C11 witness: a worker is in flight and the history has moved on since its
\* dispatch: a later user message was appended and the oldest record the
\* worker carries was evicted.
C11_Witness ==
    \E w \in WorkerIds :
        /\ workers[w].pc = "started"
        /\ Len(Payload(w)) = MAX_HISTORY_MESSAGES + 1
        /\ Payload(w)[2] # conversation_history[1]
        /\ conversation_history[Len(conversation_history)]
             # Payload(w)[Len(Payload(w))]

\* The step is the delivery of a queued finished to _api_thread_finished.
FinishedHandled ==
    /\ phase' = "running"
    /\ queue # <<>>
    /\ Head(queue).sig = "finished"
    /\ queue' = Tail(queue)

\* handle_api_result has run for the result of worker w.
ResultDelivered(w) ==
    /\ workers[w].pc \in { "returned", "done" }
    /\ \A i \in 1..Len(queue) :
         ~(queue[i].sig = "result_ready" /\ queue[i].w = w)

\* C12: when _api_thread_finished clears the pending-request marker and sets
\* the state Idle, the result of the worker that finished and the result of
\* the worker the marker stands for have been handled by handle_api_result.
C12_ResultBeforeMarkerClearedBeforeIdle ==
    [][ FinishedHandled =>
          /\ ResultDelivered(Head(queue).w)
          /\ api_thread # None => ResultDelivered(api_thread)
          /\ api_thread' = None
          /\ app_state' = STATE_IDLE ]_vars

\* C13: every worker that is dispatched is eventually resolved, and with it the
\* pending-request marker is cleared and the state is Idle again (or the
\* user has quit the application first), whatever run() emitted.
C13_DispatchedEventuallyResolved ==
    \A w \in WorkerIds :
        (workers[w].pc = "started") ~>
            \/ phase = "quit"
            \/ /\ workers[w].pc = "done"
               /\ api_thread = None
               /\ app_state = STATE_IDLE

\* C13 witness: a request that failed has been resolved: its worker is gone,
\* the marker is cleared, the state is Idle and the error is showing.
C13_Witness ==
    /\ phase = "running"
    /\ workers[1].pc = "done"
    /\ Pending = {}
    /\ api_thread = None
    /\ app_state = STATE_IDLE
    /\ bubble_visible
    /\ bubble_text \in { t \in { o[2] : o \in RunOutcomes("sk-key") } : IsError(t) }

\* C14: a worker is constructed and started only by a step that is a
\* non-empty submission, so the workers ever started never outnumber the
\* non-empty submissions: nothing is resent after an error or a rejection.
C14_WorkerOnlyOnSubmission ==
    [][ phase' = "running" =>
          /\ Started' # Started => Submitted
          /\ Started \subseteq Started'
          /\ Cardinality(Started') <= Cardinality(Started) + 1
          /\ Cardinality(Started') <= submits' ]_vars

\* C14 witness: one submission was rejected while a request was pending, the
\* request ended with an error that is showing, and only the one worker was
\* ever started.
C14_Witness ==
    /\ submits = 2
    /\ Started = { 1 }
    /\ workers[1].pc = "done"
    /\ Pending = {}
    /\ bubble_visible
    /\ bubble_text = PARSE_ERROR
    /\ conversation_history[Len(conversation_history)] = UserMessage(<<UserTexts[2]>>)

\* C15: a step changes conversation_history only if it is a submission whose
\* request is sent (a worker is started), which appends the user message, or
\* the handling of the result of the success path of run(), which appends the
\* assistant message; no other step changes it.
C15_HistoryMutatedOnlyOnSendAndReply ==
    [][ (phase' = "running" /\ conversation_history' # conversation_history) =>
          \/ /\ Submitted
             /\ Started' # Started
             /\ conversation_history' =
                  Trim(Append(conversation_history,
                              UserMessage(<<UserTexts[submits']>>)))
          \/ /\ ResultHandled
             /\ Head(queue).path = "success"
             /\ conversation_history' =
                  Trim(Append(conversation_history,
                              AssistantMessage(Head(queue).text))) ]_vars

\* The texts the manager itself shows in the bubble.
DispatcherNotices == { THINKING_NOTICE, ALREADY_NOTICE, KEY_NOTICE, KEY_WARNING }

\* C16: every record of conversation_history has role user or assistant; none
\* is the system record and none carries a notice of the manager; a user
\* record carries a text the user submitted, an assistant record a text that
\* run() emits, and there are no more assistant records than workers that
\* have emitted.
C16_OnlyUserAndAssistantRecords ==
    LET emitted == { w \in WorkerIds : workers[w].pc \in { "emitted", "returned", "done" } }
        assistant == { i \in 1..Len(conversation_history) :
                         conversation_history[i].role = "assistant" }
    IN  /\ \A i \in 1..Len(conversation_history) :
             LET m == conversation_history[i]
             IN  /\ m.role \in { "user", "assistant" }
                 /\ m # system_message
                 /\ m.content # SYSTEM_PROMPT
                 /\ m.content \notin DispatcherNotices
                 /\ m.role = "user" =>
                      \E k \in 1..submits : m.content = <<UserTexts[k]>>
                 /\ m.role = "assistant" =>
                      \E o \in RunOutcomes(openrouter_api_key) : m.content = o[2]
        /\ Cardinality(assistant) <= Cardinality(emitted)

\* C16 witness: a reply is stored, and the "already thinking" notice is
\* showing for a submission made while a later request is pending.
C16_Witness ==
    /\ bubble_visible
    /\ bubble_text = ALREADY_NOTICE
    /\ app_state = STATE_THINKING
    /\ Len(conversation_history) = 4
    /\ conversation_history[2].role = "assistant"
    /\ conversation_history[4] = UserMessage(<<UserTexts[3]>>)

\* C17: with an empty history, the state Idle, no request pending and the
\* configuration complete, the submission of t leaves the history [user t],
\* the state Thinking and "Thinking..." showing, with one worker started;
\* if no other submission is made, the handling of a successful reply r
\* leaves the history [user t, assistant r] and r showing, and the handling
\* of finished leaves the state Idle with r still the bubble's text.
C17_EndToEndTurn ==
    [][ phase' = "running" =>
          /\ ( /\ Submitted
               /\ conversation_history = <<>>
               /\ app_state = STATE_IDLE
               /\ api_thread = None
               /\ ~Falsy(openrouter_api_key)
               /\ ~Falsy(openrouter_model) ) =>
                 /\ conversation_history' = << UserMessage(<<UserTexts[1]>>) >>
                 /\ app_state' = STATE_THINKING
                 /\ bubble_visible'
                 /\ bubble_text' = THINKING_NOTICE
                 /\ api_thread' = 1
                 /\ workers'[1].pc = "started"
                 /\ Started' = { 1 }
          /\ (ResultHandled /\ submits = 1 /\ Head(queue).path = "success") =>
                 /\ conversation_history' =
                      << UserMessage(<<UserTexts[1]>>),
                         AssistantMessage(Head(queue).text) >>
                 /\ bubble_visible'
                 /\ bubble_text' = Head(queue).text
          /\ ( /\ FinishedHandled
               /\ submits = 1
               /\ Len(conversation_history) = 2 ) =>
                 /\ app_state' = STATE_IDLE
                 /\ api_thread' = None
                 /\ conversation_history' = conversation_history
                 /\ conversation_history[1] = UserMessage(<<UserTexts[1]>>)
                 /\ conversation_history[2].role = "assistant"
                 /\ bubble_text' = conversation_history[2].content ]_vars

\* C18: with the history at [m1..m10], a submission of u leaves [m2..m10, u]
\* and the worker it starts carries [system, m2..m10, u]; when the successful
\* reply r of that worker is handled with the history as it was at dispatch,
\* the history becomes [m3..m10, u, r], of length 10.
C18_FullHistoryTurn ==
    [][ phase' = "running" =>
          /\ (Submitted /\ Len(conversation_history) = MAX_HISTORY_MESSAGES) =>
               LET u == UserMessage(<<UserTexts[submits']>>)
               IN  /\ conversation_history' =
                        Append(Tail(conversation_history), u)
                   /\ Started' # Started =>
                        workers'[api_thread'].messages =
                          <<system_message>> \o Append(Tail(conversation_history), u)
          /\ ( /\ ResultHandled
               /\ Head(queue).path = "success"
               /\ Len(Payload(Head(queue).w)) = MAX_HISTORY_MESSAGES + 1
               /\ conversation_history = Tail(Payload(Head(queue).w)) ) =>
               LET sent == Payload(Head(queue).w)
               IN  /\ conversation_history' =
                        Append(SubSeq(sent, 3, Len(sent)),
                               AssistantMessage(Head(queue).text))
                   /\ Len(conversation_history') = MAX_HISTORY_MESSAGES
                   /\ conversation_history'[MAX_HISTORY_MESSAGES - 1] =
                        UserMessage(<<UserTexts[submits]>>) ]_vars

\* C18 witness: a submission made with ten messages stored has been answered:
\* the history is the last ten of the twelve or more messages ever appended,
\* ending with that user message and its reply.
C18_Witness ==
    /\ submits = 2
    /\ Pending = {}
    /\ Len(log) >= MAX_HISTORY_MESSAGES + 3
    /\ Len(conversation_history) = MAX_HISTORY_MESSAGES
    /\ conversation_history = SubSeq(log, Len(log) - MAX_HISTORY_MESSAGES + 1, Len(log))
    /\ conversation_history[MAX_HISTORY_MESSAGES - 1] = UserMessage(<<UserTexts[2]>>)
    /\ conversation_history[MAX_HISTORY_MESSAGES] = AssistantMessage(<<"Hi there!">>)
    /\ bubble_text = <<"Hi there!">>

\* The number of queued result_ready calls of worker w.
ResultsQueued(q, w) ==
    Cardinality({ i \in 1..Len(q) : q[i].sig = "result_ready" /\ q[i].w = w })

\* C19: the step that takes a worker through run() queues exactly one
\* result_ready of that worker, carrying the reply or one error text of a
\* path of run(); run() returns only after that emit; and no other step
\* queues a result of that worker.
C19_ExactlyOneResultPerRun ==
    [][ phase' = "running" =>
          \A w \in WorkerIds :
              /\ (workers[w].pc = "started" /\ workers'[w].pc # "started") =>
                   /\ workers'[w].pc = "emitted"
                   /\ Len(queue') = Len(queue) + 1
                   /\ SubSeq(queue', 1, Len(queue)) = queue
                   /\ queue'[Len(queue')].sig = "result_ready"
                   /\ queue'[Len(queue')].w = w
                   /\ \E o \in RunOutcomes(workers[w].api_key) :
                        /\ queue'[Len(queue')].path = o[1]
                        /\ queue'[Len(queue')].text = o[2]
                   /\ ResultsQueued(queue', w) = 1
              /\ ~(workers[w].pc = "started" /\ workers'[w].pc # "started") =>
                   ResultsQueued(queue', w) <= ResultsQueued(queue, w)
              /\ (workers'[w].pc = "returned" /\ workers[w].pc # "returned") =>
                   workers[w].pc = "emitted"
              /\ workers[w].pc \in { "none", "started" } =>
                   ResultsQueued(queue, w) = 0 ]_vars

\* C19 witness: run() has returned on its catch-all path and the queue holds
\* the one result of that worker, followed by its finished.
C19_Witness ==
    \E w \in WorkerIds :
        /\ workers[w].pc = "returned"
        /\ queue = << ResultReady(w, <<"unexpected", UNEXPECTED_ERROR>>), Finished(w) >>

\* The step is a step of worker w on its own thread: run() up to its emit, or
\* the return of run().
WorkerStep(w) ==
    /\ phase' = "running"
    /\ \/ workers[w].pc = "started" /\ workers'[w].pc = "emitted"
       \/ workers[w].pc = "emitted" /\ workers'[w].pc = "returned"

\* What the manager owns: history, state, pending-request marker, overlays.
managed ==
    << conversation_history, app_state, character_content, api_thread, overlays >>

C21_BubbleShowsResultText ==
    [][ ResultHandled =>
          /\ bubble_visible'
          /\ bubble_text' = Head(queue).text ]_vars

\* The step is _send_message on a field that is empty once stripped: the one
\* step that leaves blanks in the field.
EmptySend ==
    /\ input_field' # input_field
    /\ Strip(input_field') = <<>>
    /\ input_field' # <<>>

\* C22: a submission that is empty after stripping changes nothing but the
\* field the user left it in: history, state, workers, queue and overlays
\* stay as they are; a non-empty submission hands the stripped text to
\* handle_input_entered exactly once, clears the field and hides the input
\* overlay; and no text that is empty or has blanks around it is ever handed on.
C22_EmptySubmissionIgnored ==
    [][ /\ EmptySend =>
             /\ UNCHANGED << conversation_history, log, submits, app_state,
                             character_content, api_thread, workers, queue,
                             overlays >>
        /\ Submitted =>
             /\ input_visible
             /\ log' = Append(log, UserMessage(<<UserTexts[submits']>>))
             /\ input_field' = <<>>
             /\ ~input_visible'
        /\ \A i \in 1..Len(log') :
             log'[i].role = "user" =>
               /\ log'[i].content # <<>>
               /\ Strip(log'[i].content) = log'[i].content ]_vars

\* C22 witness: blanks were submitted while a request was pending: they are
\* still in the field, the input overlay is still open, and the history
\* holds the one message sent before.
C22_Witness ==
    /\ input_field = <<" ">>
    /\ input_visible
    /\ submits = 1
    /\ Pending # {}
    /\ app_state = STATE_THINKING
    /\ conversation_history[Len(conversation_history)] = UserMessage(<<UserTexts[1]>>)

\* C23: the X button and the close event hide the three overlays and nothing
\* else: the process keeps running, history, state, pending-request marker,
\* workers and queued signals stay as they are, so that with the overlays
\* hidden a worker still runs and a queued signal is still handled.
C23_CloseOnlyHides ==
    [][ /\ (CloseButton \/ closeEvent) =>
             /\ phase' = "running"
             /\ ~character_visible' /\ ~input_visible' /\ ~bubble_visible'
             /\ UNCHANGED << conversation_history, log, submits, app_state,
                             character_content, api_thread, workers, queue,
                             bubble_text >>
        /\ (phase = "running" /\ ~character_visible) =>
             /\ queue # <<>> => ENABLED (DeliverResult \/ DeliverFinished)
             /\ \A w \in WorkerIds :
                  /\ workers[w].pc = "started" => ENABLED WorkerRun(w)
                  /\ workers[w].pc = "emitted" => ENABLED WorkerReturn(w) ]_vars

\* C23 witness: the overlays were closed while a request was in flight, and
\* its reply has been handled since: it is stored and the request is resolved,
\* with the character still hidden.
C23_Witness ==
    /\ phase = "running"
    /\ ~character_visible
    /\ submits = 1
    /\ Pending = {}
    /\ workers[1].pc = "done"
    /\ app_state = STATE_IDLE
    /\ conversation_history[Len(conversation_history)].role = "assistant"
    /\ bubble_text = <<"Hi">>

\* The error classes, and where each ends up in the code: the path of run()
\* that reports it ("guard" for the key test of start_api_request, "none"
\* where the code has no test and no notice). A refused connection, a 401, a
\* 429 and any other HTTP error all raise a RequestException.
ErrorClasses ==
    { "missing_credential", "missing_endpoint", "missing_model",
      "connection_failure", "authentication_failure", "rate_limiting",
      "api_failure", "parse_failure", "unexpected_exception" }

PathOf(class) ==
    CASE class = "missing_credential" -> "guard"
      [] class = "missing_endpoint" -> "none"
      [] class = "missing_model" -> "none"
      [] class \in { "connection_failure", "authentication_failure",
                     "rate_limiting", "api_failure" } -> "request_error"
      [] class = "parse_failure" -> "parse_error"
      [] class = "unexpected_exception" -> "unexpected"

\* The fixed text a notice starts with, before the exception's own words.
NoticePrefix(path) ==
    CASE path = "guard" -> KEY_PATTERN
      [] path = "no_key" -> <<"Error:">>
      [] path = "request_error" -> <<"API ", "Error:">>
      [] path = "parse_error" -> <<"API ", "Response ", "Parse ", "Error:">>
      [] path = "unexpected" -> <<"An unexpected error occurred: ">>
      [] path = "none" -> <<>>

\* The error classes a notice that starts with prefix may stand for.
ClassesOf(prefix) ==
    { c \in ErrorClasses : NoticePrefix(PathOf(c)) = prefix }

\* C24: every error text a worker emits starts with the fixed prefix of its
\* path of run(), the key notice of start_api_request with its own, and each
\* such prefix stands for exactly one error class.
C24_DistinctNoticePerErrorClass ==
    /\ \A i \in 1..Len(queue) :
         (queue[i].sig = "result_ready" /\ queue[i].path \in ErrorPaths) =>
           /\ StartsWith(queue[i].text, NoticePrefix(queue[i].path))
           /\ Cardinality(ClassesOf(NoticePrefix(queue[i].path))) = 1
    /\ (bubble_visible /\ bubble_text = KEY_NOTICE) =>
         /\ StartsWith(bubble_text, NoticePrefix("guard"))
         /\ Cardinality(ClassesOf(NoticePrefix("guard"))) = 1

\* All three required asset files exist.
AssetsComplete ==
    \A i \in 1..Len(required_files) : required_files[i] \in assets

\* C25: the application runs (manager and overlays exist) only if all three
\* asset files exist; if one is missing, start-up has aborted with no overlay
\* shown, no timer armed and no worker; nothing is shown before the check.
C25_FailFastStartup ==
    /\ phase \in { "running", "quit" } => AssetsComplete
    /\ phase = "aborted" => ~AssetsComplete
    /\ phase \in { "boot", "aborted" } =>
         /\ ~character_visible /\ ~input_visible /\ ~bubble_visible
         /\ ~warning_timer
         /\ Started = {}
         /\ queue = <<>>
         /\ conversation_history = <<>>

\* C25 witness: start-up has aborted with only the tray icon missing.
C25_Witness ==
    /\ phase = "aborted"
    /\ assets = { IDLE_CHARACTER_PATH, BUSY_CHARACTER_PATH }
    /\ ~character_visible

\* C26: _api_thread_finished handling the finished signal of a worker other
\* than the one the pending-request marker stands for leaves the marker and
\* the state as they are, and no other worker is then still in run().
C26_StaleFinishedLeavesMarker ==
    [][ FinishedHandled =>
          LET finishing == Head(queue).w
          IN  /\ api_thread \notin { None, finishing } =>
                   /\ api_thread' = api_thread
                   /\ app_state' = app_state
              /\ \A w \in WorkerIds \ { finishing } :
                   isRunning(w) => (api_thread' = w /\ app_state' = app_state) ]_vars

\* C27: while the application runs with the character overlay hidden, the
\* reply overlay and the input overlay are hidden too.
C27_OverlaysStayHidden ==
    (phase = "running" /\ ~character_visible) =>
        (~bubble_visible /\ ~input_visible)

IsUserRecord(m) == m.role = "user"

\* The last MAX_HISTORY_MESSAGES messages of those ever appended.
Retained(appended) ==
    SubSeq(appended,
           IF Len(appended) > MAX_HISTORY_MESSAGES
           THEN Len(appended) - MAX_HISTORY_MESSAGES + 1 ELSE 1,
           Len(appended))

\* C28: every non-empty submission, sent or rejected, adds its user message
\* after all earlier ones, and nothing else adds a user message; the history
\* is the last ten messages ever appended, in that order; and a request that
\* is dispatched carries exactly that history, so every earlier message not
\* yet evicted, rejected ones included, in submission order.
C28_UserMessagesInSubmissionOrder ==
    [][ phase' = "running" =>
          /\ Submitted =>
               log' = Append(log, UserMessage(<<UserTexts[submits']>>))
          /\ SelectSeq(log', IsUserRecord) =
               IF Submitted
               THEN Append(SelectSeq(log, IsUserRecord),
                           UserMessage(<<UserTexts[submits']>>))
               ELSE SelectSeq(log, IsUserRecord)
          /\ conversation_history' = Retained(log')
          /\ (Submitted /\ Started' # Started) =>
               Tail(workers'[api_thread'].messages) = Retained(log') ]_vars

\* C28 witness: m2 was rejected while the request for m1 was pending; the
\* request dispatched for m3 carries m1, m2 and m3 in that order, and the
\* oldest messages of the conversation have been evicted.
C28_Witness ==
    /\ submits = 3
    /\ Started = { 1, 2 }
    /\ workers[2].pc = "started"
    /\ Len(log) > MAX_HISTORY_MESSAGES + 1
    /\ LET sent == Payload(2)
       IN  \E i, j \in 1..Len(sent) :
               /\ i < j /\ j < Len(sent)
               /\ sent[i] = UserMessage(<<UserTexts[1]>>)
               /\ sent[j] = UserMessage(<<UserTexts[2]>>)
               /\ sent[Len(sent)] = UserMessage(<<UserTexts[3]>>)

=============================================================================
